---- MODULE Spec2Model ----
(***************************************************************************)
(* Steel price vs events page (src/pages/3_Steel_Price_Events.py): the Fed *)
(* rate-change detector, the manual/derived event merge and range filter,  *)
(* and the before/after window.                                            *)
(*                                                                         *)
(* Dates are day ordinals (integers); a frame is a sequence of rows;       *)
(* an event text is a sequence of tokens.                                  *)
(***************************************************************************)
EXTENDS Integers, Sequences, FiniteSets, TLC

VARIABLES
    pc,              \* position of the script run
    urlLog,          \* what pd.read_csv answers for the urls, in the order of line 162
    fed_min_year,    \* sidebar slider "Fed overlay: start year"
    fred,            \* load_fed_target_range_changes' frame after line 192
    fed_events,      \* first component of the loader's result
    fed_warning,     \* second component of the loader's result
    fed_raised,      \* the exception that left the loader, "none" when it returned
    steel_events_set,    \* "steel_events" in st.session_state
    steel_events,        \* st.session_state.steel_events
    show_manual_events,  \* sidebar toggle "Show manual event markers"
    show_fed_events,     \* sidebar toggle "Overlay Fed rate changes"
    show_manual_labels,  \* sidebar toggle "Label manual events"
    show_fed_labels,     \* sidebar toggle "Label Fed changes"
    series,              \* line 139, what load_series returned
    plot_series,         \* the price series, a frame of Date and Price
    events_df,           \* lines 263-264, the table the editor shows; it is not read
                         \* after line 266 and is <<>> outside lines 263-266
    events,              \* what st.data_editor returned
    manual_events,       \* line 285
    plot_events,         \* line 290
    min_d,               \* line 326
    max_d,               \* line 327
    overlay,             \* the rows of plot_events the loop did not skip at line 333
    markers,             \* the rows a vline was added for (line 347)
    vlines,              \* the vlines of the figure (line 347)
    annotations,         \* the annotations of the figure (lines 351-362)
    info_shown,          \* the text of st.info at line 369, None when not called
    picked,              \* position of the option picked in the selectbox, 0 when none
    selected_event,      \* line 379
    window_days,         \* line 380
    d0,                  \* line 382
    window,              \* line 386
    window_shown,        \* "info" (line 389), "chart" (line 403) or "none"
    window_raised        \* the exception that left lines 382-404, "none" when none did

fedVars == <<urlLog, fed_min_year, fred, fed_events, fed_warning, fed_raised>>
sessionVars == <<steel_events_set, steel_events>>
sidebarVars ==
    <<show_manual_events, show_fed_events, show_manual_labels, show_fed_labels,
      series, plot_series>>
mergeVars == <<events_df, events, manual_events, plot_events>>
plotVars == <<min_d, max_d, overlay, markers, vlines, annotations, info_shown>>
windowVars ==
    <<picked, selected_event, window_days, d0, window, window_shown, window_raised>>

vars == <<pc, fedVars, sessionVars, sidebarVars, mergeVars, plotVars, windowVars>>

---------------------------------------------------------------------------
\* Bounds of the model

\* longest reference CSV (rows) the detector is given
MaxRef == 3
\* reference rows are dated 0..MaxRefDay
MaxRefDay == 2
\* day ordinals per calendar year of the model's calendar
DaysPerYear == 2
\* most rows of the manual event table
MaxManual == 2

---------------------------------------------------------------------------
\* Values of the program

\* pd.NaT, what pd.to_datetime(errors="coerce") gives an unparseable cell
NaT == -1
\* float NaN, what pd.to_numeric(errors="coerce") gives an unparseable cell
NaN == -1
\* a raw CSV cell that is neither a date nor a number (FRED writes ".")
BadCell == -2
\* lower end of the "Fed overlay: start year" slider
FedMinYearLo == 2008
\* default of the "Fed overlay: start year" slider
FedMinYearDefault == 2018

\* lower end of the "Window (days before/after)" slider
WindowMin == 7

None == "None"
ManualCategory == "Geopolitics"
FedCategory == "Monetary policy (Fed)"
FedUnavailable == "Fed overlay unavailable (FRED fetch/parse failed)."

RefDays == 0..MaxRefDay
\* target-range upper limits, in thousandths of a percent
Uppers == {250, 254, 500}
\* start years the slider is set to
MinYears == {FedMinYearLo, FedMinYearLo + 1, FedMinYearDefault}

\* dates of the page: prices, manual events, and the Fed rows it is shown
Days == {0, WindowMin, WindowMin + 1}
\* Event texts of manual rows
Labels == {<<"A">>, <<"B">>}
\* prices
Prices == {100}
\* settings of the window slider
WindowDays == {WindowMin, WindowMin + 1}

\* .dt.year of a day ordinal
Year(d) == FedMinYearLo + (d \div DaysPerYear)

\* pd.to_datetime(cell, errors="coerce")
ToDatetime(c) == IF c >= 0 THEN c ELSE NaT
\* pd.to_numeric(cell, errors="coerce")
ToNumeric(c) == IF c >= 0 THEN c ELSE NaN

\* f"{cur:.2f}": thousandths rounded to hundredths
Fmt2(v) == (v + 5) \div 10

---------------------------------------------------------------------------
\* Frames

Min(S) == CHOOSE m \in S : \A x \in S : m <= x
Max(S) == CHOOSE m \in S : \A x \in S : m >= x

IsSortedByDate(s) == \A i \in 1..(Len(s) - 1) : s[i].Date <= s[i + 1].Date

RECURSIVE Arrangements(_, _)
\* every ordering of the rows s[i], i \in I, that is ascending by Date
Arrangements(s, I) ==
    IF I = {} THEN {<<>>}
    ELSE LET m == Min({s[i].Date : i \in I})
         IN UNION {{<<s[i]>> \o t : t \in Arrangements(s, I \ {i})} :
                     i \in {j \in I : s[j].Date = m}}

\* an ordering that moves rows only when the frame is out of order
SortValuesKeepOrder(s) == {s}

\* df.sort_values("Date"): kind defaults to "quicksort", which is not stable,
\* so rows of equal Date come out in any order
SortValues(s) == Arrangements(s, DOMAIN s)

---------------------------------------------------------------------------
\* load_fed_target_range_changes

\* a response carries the usable columns
Usable(resp) == resp.kind = "ok"

RECURSIVE LastUsable(_)
\* a loop without the break: the index of the last usable response, 0 if none
LastUsable(resps) ==
    IF resps = <<>> THEN 0
    ELSE IF Usable(resps[Len(resps)]) THEN Len(resps)
    ELSE LastUsable(SubSeq(resps, 1, Len(resps) - 1))

RECURSIVE FirstUsable(_)
\* the for loop over urls: the index of the first usable response, 0 if none
FirstUsable(resps) ==
    IF resps = <<>> THEN 0
    ELSE IF Usable(Head(resps)) THEN 1
    ELSE LET k == FirstUsable(Tail(resps)) IN IF k = 0 THEN 0 ELSE k + 1

\* lines 189-190: both columns coerced
Coerce(rows) ==
    [i \in 1..Len(rows) |-> [Date |-> ToDatetime(rows[i].Date),
                              Upper |-> ToNumeric(rows[i].Upper)]]

IsParsed(r) == r.Date # NaT /\ r.Upper # NaN

\* line 191: dropna(subset=["Date", "Upper"])
DropNa(rows) == SelectSeq(rows, IsParsed)

\* a filter that keeps the years after min_year only
YearFilterStrict(rows, min_year) ==
    SelectSeq(rows, LAMBDA r : Year(r.Date) > min_year)

\* line 192: fred[fred["Date"].dt.year >= min_year]
YearFilter(rows, min_year) ==
    SelectSeq(rows, LAMBDA r : Year(r.Date) >= min_year)

\* line 198: fred["Prev"] = fred["Upper"].shift(1)
WithPrev(rows) ==
    [i \in 1..Len(rows) |-> [Date |-> rows[i].Date, Upper |-> rows[i].Upper,
                              Prev |-> IF i = 1 THEN NaN ELSE rows[i - 1].Upper]]

\* a comparison that also reports the rows whose value did not move
ChangedRowsAll(rows) == rows

\* a comparison that takes the missing Prev of the first row for no change
ChangedRowsSkipFirst(rows) ==
    SelectSeq(rows, LAMBDA r : r.Prev # NaN /\ r.Upper # r.Prev)

\* line 199: fred[fred["Upper"] != fred["Prev"]]
ChangedRows(rows) == SelectSeq(rows, LAMBDA r : r.Upper # r.Prev)

\* a formatter with the two arrows exchanged
FmtChangeSwapped(row) ==
    IF row.Prev = NaN THEN <<"set to", Fmt2(row.Upper)>>
    ELSE <<IF row.Upper < row.Prev THEN "up to" ELSE "down to", Fmt2(row.Upper)>>

\* lines 201-207: _fmt_change
FmtChange(row) ==
    IF row.Prev = NaN THEN <<"set to", Fmt2(row.Upper)>>
    ELSE <<IF row.Upper > row.Prev THEN "up to" ELSE "down to", Fmt2(row.Upper)>>

\* lines 209-212: the returned frame
ToEvents(changes) ==
    [i \in 1..Len(changes) |-> [Date |-> changes[i].Date,
                                 Event |-> FmtChange(changes[i]),
                                 Category |-> FedCategory]]

\* a loader that reports an empty range like a failed fetch
AfterFilterWarnEmpty(sorted, min_year) ==
    LET f == YearFilter(sorted, min_year)
    IN  IF f = <<>>
        THEN [fred |-> f, events |-> <<>>, warning |-> FedUnavailable, raised |-> "none"]
        ELSE [fred |-> f, events |-> ToEvents(ChangedRows(WithPrev(f))),
              warning |-> None, raised |-> "none"]

\* a loader that compares before it filters: Prev is taken over every year
AfterFilterShiftFirst(sorted, min_year) ==
    LET f == YearFilter(WithPrev(sorted), min_year)
    IN  [fred |-> [i \in 1..Len(f) |-> [Date |-> f[i].Date, Upper |-> f[i].Upper]],
         events |-> ToEvents(ChangedRows(f)),
         warning |-> None, raised |-> "none"]

\* lines 192-212, given the frame sort_values returned
AfterFilter(sorted, min_year) ==
    LET f == YearFilter(sorted, min_year)
    IN  IF f = <<>>
        THEN [fred |-> f, events |-> <<>>, warning |-> None, raised |-> "none"]
        ELSE [fred |-> f, events |-> ToEvents(ChangedRows(WithPrev(f))),
              warning |-> None, raised |-> "none"]

\* lines 154-212: every result load_fed_target_range_changes(min_year) can
\* return when pd.read_csv answers the urls with resps
LoadFedTargetRangeChanges(resps, min_year) ==
    LET k == FirstUsable(resps)
    IN  IF k = 0
        THEN {[fred |-> <<>>, events |-> <<>>, warning |-> FedUnavailable,
               raised |-> "none"]}
        ELSE {AfterFilter(s, min_year) : s \in SortValues(DropNa(Coerce(resps[k].rows)))}

---------------------------------------------------------------------------
\* The page: manual events, merge, markers, window

\* lines 222-255: default_events (two rows stand for the five)
default_events ==
    <<[Date |-> 0, Event |-> <<"A">>, Category |-> ManualCategory],
      [Date |-> WindowMin + 1, Event |-> <<"B">>, Category |-> ManualCategory]>>

\* frame["Date"] = pd.to_datetime(frame["Date"], errors="coerce")
CoerceDates(rows) ==
    [i \in 1..Len(rows) |-> [rows[i] EXCEPT !.Date = ToDatetime(rows[i].Date)]]

HasDate(r) == r.Date # NaT

\* dropna(subset=["Date"])
DropNaT(rows) == SelectSeq(rows, HasDate)

\* an initialisation without the test of line 257
InstallDefaultsAlways(isSet, stored) == default_events

\* lines 257-258: st.session_state.steel_events once they have run, given
\* whether the key was in the session state and what it held
InstallDefaults(isSet, stored) == IF isSet THEN stored ELSE default_events

\* a store of the editor's output followed by the derived events
StoredEventsWithDerived(ed, derived) == ed \o derived

\* line 281: of the editor's output and the derived events of the run, what is
\* written to st.session_state.steel_events
StoredEvents(ed, derived) == ed

\* manual_events = events without the copy: line 284 rewrites the Date column
\* of the editor's output
EventsAfterAlias(ed) == CoerceDates(ed)

\* line 283: manual_events is events.copy(), so what events (and the session
\* state, which holds the same frame) is after lines 284-285
EventsAfterCopy(ed) == ed

\* manual_events without the dropna of line 285
ManualEventsKeepNaT(ed) == SortValues(CoerceDates(ed))

\* lines 283-285: every frame manual_events can be
ManualEvents(ed) == SortValues(DropNaT(CoerceDates(ed)))

\* a merge that leaves the concatenation as it is
PlotEventsUnsorted(manual, fed) == {DropNaT(CoerceDates(manual \o fed))}

\* lines 288-290: every frame plot_events can be
PlotEvents(manual, fed) == SortValues(DropNaT(CoerceDates(manual \o fed)))

\* lines 298-300: plot_series with its index coerced and the NA rows dropped
CleanSeries(points) ==
    SelectSeq(CoerceDates(points), LAMBDA r : r.Date # NaT /\ r.Price # NaN)

\* lines 302-306: plot_df, the cleaned series in date order
PlotDf(points) == SortValues(CleanSeries(points))

\* a range test that leaves out the first and the last day of the series
SkippedExclusive(d, lo, hi) == d <= lo \/ d >= hi

\* line 332: d < min_d or d > max_d
Skipped(d, lo, hi) == d < lo \/ d > hi

\* line 335
IsFed(r) == r.Category = FedCategory

\* a loop without the checks of lines 337-340
ToggledOffNever(r, showManual, showFed) == FALSE

\* lines 337-340: the row is left out by its toggle
ToggledOff(r, showManual, showFed) ==
    (IsFed(r) /\ ~showFed) \/ (~IsFed(r) /\ ~showManual)

\* lines 330-333: the rows that pass the range test, in the frame's order
InRangeRows(rows, lo, hi) == SelectSeq(rows, LAMBDA r : ~Skipped(r.Date, lo, hi))

\* lines 330-347: the rows a vline is drawn for
Markers(rows, lo, hi, showManual, showFed) ==
    SelectSeq(InRangeRows(rows, lo, hi), LAMBDA r : ~ToggledOff(r, showManual, showFed))

\* lines 345-347: the vline of a row; opacity in hundredths
VLine(r) == [x |-> r.Date, opacity |-> IF IsFed(r) THEN 35 ELSE 60]

\* line 349
LabelOn(r, showManualLabels, showFedLabels) ==
    IF IsFed(r) THEN showFedLabels ELSE showManualLabels

\* lines 351-362: the annotation of a row; y and opacity in hundredths
Annotation(r) ==
    [x |-> r.Date,
     y |-> IF ~IsFed(r) THEN 102 ELSE 106,
     text |-> r.Event,
     opacity |-> IF ~IsFed(r) THEN 85 ELSE 70]

\* line 347, over the rows drawn
VLines(drawn) == [i \in DOMAIN drawn |-> VLine(drawn[i])]

\* lines 349-362, over the rows drawn
Annotations(drawn, showManualLabels, showFedLabels) ==
    LET labelled == SelectSeq(drawn, LAMBDA r : LabelOn(r, showManualLabels, showFedLabels))
    IN  [i \in DOMAIN labelled |-> Annotation(labelled[i])]

\* lines 368-369: the warning st.info shows, None when it is not called
InfoShown(warning) == IF warning \in {None, ""} THEN None ELSE warning

\* line 382: the Date of the first row of manual whose Event is selected
EventDate(manual, selected) ==
    manual[Min({i \in DOMAIN manual : manual[i].Event = selected})].Date

\* a window that leaves out the points at its two ends
WindowExclusive(points, center, radius) ==
    SelectSeq(points, LAMBDA r : r.Date > center - radius /\ r.Date < center + radius)

\* a window that takes the radius without its sign
WindowAbsRadius(points, center, radius) ==
    LET r == IF radius < 0 THEN 0 - radius ELSE radius
    IN  SelectSeq(points, LAMBDA p : p.Date >= center - r /\ p.Date <= center + r)

\* lines 383-386: the points from center - radius to center + radius
Window(points, center, radius) ==
    SelectSeq(points, LAMBDA r : r.Date >= center - radius /\ r.Date <= center + radius)

\* a guard that always plots
WindowOutputAlwaysChart(w) == "chart"

\* lines 388-404: st.info for an empty window, the chart otherwise
WindowOutput(w) == IF w = <<>> THEN "info" ELSE "chart"

---------------------------------------------------------------------------
\* Inputs

\* sequences over S of length at most n
SeqsUpTo(S, n) == UNION {[1..k -> S] : k \in 0..n}

\* rows of a FRED CSV: a date cell and a value cell, either possibly unparseable
RawRows ==
    {[Date |-> d, Upper |-> u] : d \in RefDays, u \in Uppers}
        \cup {[Date |-> BadCell, Upper |-> 250], [Date |-> 0, Upper |-> BadCell]}

Failures == {[kind |-> "exception", rows |-> <<>>], [kind |-> "badcols", rows |-> <<>>]}

\* what the urls answer, up to the response the loop stops at: the first url
\* answers rowSeqs, or fails and the second answers backupSeqs or fails too
UrlAnswers(rowSeqs, backupSeqs) ==
    {<<[kind |-> "ok", rows |-> r]>> : r \in rowSeqs}
        \cup {<<f, [kind |-> "ok", rows |-> r]>> : f \in Failures, r \in backupSeqs}
        \cup {<<f, g>> : f \in Failures, g \in Failures}

---------------------------------------------------------------------------
\* Inputs of the page

\* dates the user enters: the first and the last day of the page
ManualDays == {0, WindowMin + 1}

\* rows st.data_editor can return: a date or an empty date cell, a text
ManualRows ==
    {[Date |-> d, Event |-> l, Category |-> ManualCategory] :
        d \in ManualDays \cup {BadCell}, l \in Labels}

\* the table with row i taken out
DeleteRow(t, i) == SubSeq(t, 1, i - 1) \o SubSeq(t, i + 1, Len(t))

\* tables st.data_editor can return when it is shown t: the user's edit since
\* the last run left t alone, changed a row, deleted a row or added a row
EditorOutputs(t) ==
    {t}
        \cup {[t EXCEPT ![i] = r] : i \in DOMAIN t, r \in ManualRows}
        \cup {DeleteRow(t, i) : i \in DOMAIN t}
        \cup (IF Len(t) < MaxManual THEN {Append(t, r) : r \in ManualRows} ELSE {})

RECURSIVE Ascending(_)
\* the price points of the days D, in date order
Ascending(D) ==
    IF D = {} THEN <<>>
    ELSE LET m == Min(D)
         IN <<[Date |-> m, Price |-> CHOOSE x \in Prices : TRUE]>> \o Ascending(D \ {m})

\* what load_series returns: no point, or points of distinct ascending dates
SeriesInputs == {Ascending(D) : D \in SUBSET Days}

FedRow(d, u) == [Date |-> d, Upper |-> u]

\* FRED CSVs the page is shown
PageRowSeqs ==
    {<<>>, <<FedRow(0, 250)>>, <<FedRow(0, 250), FedRow(WindowMin, 500)>>}

\* what the urls answer the page: the first url a CSV, or both urls a CSV each,
\* or the first fails and the second answers a CSV, or both fail
PageUrlAnswers ==
    {<<[kind |-> "ok", rows |-> r]>> : r \in PageRowSeqs}
        \cup {<<[kind |-> "ok", rows |-> <<FedRow(0, 250)>>],
                [kind |-> "ok", rows |-> <<FedRow(WindowMin, 500)>>]>>,
              <<[kind |-> "badcols", rows |-> <<>>],
                [kind |-> "ok", rows |-> <<FedRow(WindowMin, 250)>>]>>,
              <<[kind |-> "exception", rows |-> <<>>], [kind |-> "badcols", rows |-> <<>>]>>}

\* settings of "Label manual events" and "Label Fed changes" the page is
\* shown: the defaults of lines 107 and 110, and both toggles flipped
LabelSettings == {<<TRUE, FALSE>>, <<FALSE, TRUE>>}

\* start years the page is shown
PageMinYears == {FedMinYearLo}

---------------------------------------------------------------------------
\* One script run, top to bottom

Init ==
    /\ pc = "start"
    /\ urlLog = <<>>
    /\ fed_min_year = FedMinYearDefault
    /\ fred = <<>>
    /\ fed_events = <<>>
    /\ fed_warning = None
    /\ fed_raised = "none"
    /\ steel_events_set = FALSE
    /\ steel_events = <<>>
    /\ show_manual_events = TRUE
    /\ show_fed_events = TRUE
    /\ show_manual_labels = TRUE
    /\ show_fed_labels = FALSE
    /\ series = <<>>
    /\ plot_series = <<>>
    /\ events_df = <<>>
    /\ events = <<>>
    /\ manual_events = <<>>
    /\ plot_events = <<>>
    /\ min_d = NaT
    /\ max_d = NaT
    /\ overlay = <<>>
    /\ markers = <<>>
    /\ vlines = <<>>
    /\ annotations = <<>>
    /\ info_shown = None
    /\ picked = 0
    /\ selected_event = <<>>
    /\ window_days = 0
    /\ d0 = NaT
    /\ window = <<>>
    /\ window_shown = "none"
    /\ window_raised = "none"

\* lines 92-147: the sidebar is read and the price series loaded; an empty
\* series ends the run (st.stop). "Normalize to 100" rescales Price alone and
\* is not modelled.
Sidebar ==
    /\ pc = "start"
    /\ \E sm \in BOOLEAN, sf \in BOOLEAN, y \in PageMinYears, ser \in SeriesInputs :
          /\ show_manual_events' = sm
          /\ show_fed_events' = sf
          /\ fed_min_year' = y
          /\ series' = ser
          /\ plot_series' = ser
          /\ pc' = IF ser = <<>> THEN "stopped" ELSE "fed"
    /\ \E lab \in LabelSettings :
          /\ show_manual_labels' = lab[1]
          /\ show_fed_labels' = lab[2]
    /\ UNCHANGED <<urlLog, fred, fed_events, fed_warning, fed_raised>>
    /\ UNCHANGED <<sessionVars, mergeVars, plotVars, windowVars>>

\* lines 215-217: the loader is called when the overlay is on
LoadFed ==
    /\ pc = "fed"
    /\ IF show_fed_events
       THEN \E resps \in PageUrlAnswers :
              \E res \in LoadFedTargetRangeChanges(resps, fed_min_year) :
                 /\ urlLog' = resps
                 /\ fred' = res.fred
                 /\ fed_events' = res.events
                 /\ fed_warning' = res.warning
                 /\ fed_raised' = res.raised
       ELSE UNCHANGED <<urlLog, fred, fed_events, fed_warning, fed_raised>>
    /\ pc' = "editor"
    /\ UNCHANGED <<fed_min_year, sessionVars, sidebarVars, mergeVars, plotVars, windowVars>>

\* lines 257-264: the defaults are installed in a session without the key, and
\* the editor is shown the stored table with its dates coerced
ShowEditor ==
    /\ pc = "editor"
    /\ LET stored == InstallDefaults(steel_events_set, steel_events)
       IN  /\ steel_events' = stored
           /\ events_df' = CoerceDates(stored)
    /\ steel_events_set' = TRUE
    /\ pc' = "editing"
    /\ UNCHANGED <<events, manual_events, plot_events>>
    /\ UNCHANGED <<fedVars, sidebarVars, plotVars, windowVars>>

\* lines 266-281: the table is edited, and the editor's output is stored
EditEvents ==
    /\ pc = "editing"
    /\ \E ed \in EditorOutputs(events_df) :
          /\ events' = ed
          /\ steel_events' = StoredEvents(ed, fed_events)
    /\ events_df' = <<>>
    /\ pc' = "merge"
    /\ UNCHANGED <<steel_events_set, manual_events, plot_events>>
    /\ UNCHANGED <<fedVars, sidebarVars, plotVars, windowVars>>

\* lines 283-290: manual_events and plot_events
Merge ==
    /\ pc = "merge"
    /\ \E m \in ManualEvents(events) :
          /\ manual_events' = m
          /\ plot_events' \in PlotEvents(m, fed_events)
    /\ events' = EventsAfterCopy(events)
    /\ steel_events' = EventsAfterCopy(steel_events)
    /\ pc' = "plot"
    /\ UNCHANGED <<events_df, steel_events_set, fedVars, sidebarVars, plotVars, windowVars>>

\* lines 298-369: the series is cleaned, the markers are added, and the
\* loader's warning is shown under the chart
Plot ==
    /\ pc = "plot"
    /\ \E df \in PlotDf(plot_series) :
          IF df = <<>>
          THEN /\ pc' = "stopped"
               /\ UNCHANGED plotVars
          ELSE LET lo == Min({df[i].Date : i \in DOMAIN df})
                   hi == Max({df[i].Date : i \in DOMAIN df})
               IN  /\ min_d' = lo
                   /\ max_d' = hi
                   /\ overlay' = InRangeRows(plot_events, lo, hi)
                   /\ LET drawn == Markers(plot_events, lo, hi,
                                            show_manual_events, show_fed_events)
                      IN  /\ markers' = drawn
                          /\ vlines' = VLines(drawn)
                          /\ annotations' =
                                Annotations(drawn, show_manual_labels, show_fed_labels)
                   /\ info_shown' = InfoShown(fed_warning)
                   /\ pc' = "inspect"
    /\ plot_series' = CleanSeries(plot_series)
    /\ UNCHANGED <<show_manual_events, show_fed_events, show_manual_labels,
                   show_fed_labels, series>>
    /\ UNCHANGED <<fedVars, sessionVars, mergeVars, windowVars>>

\* lines 377-404: the before/after window of a picked manual event
Inspect ==
    /\ pc = "inspect"
    /\ IF manual_events = <<>>
       THEN UNCHANGED windowVars
       ELSE \E k \in DOMAIN manual_events, wd \in WindowDays :
              LET sel == manual_events[k].Event
                  c == EventDate(manual_events, sel)
                  w == Window(plot_series, c, wd)
              IN  /\ picked' = k
                  /\ selected_event' = sel
                  /\ window_days' = wd
                  /\ d0' = c
                  /\ window' = w
                  /\ window_shown' = WindowOutput(w)
                  /\ window_raised' = "none"
    /\ pc' = "done"
    /\ UNCHANGED <<fedVars, sessionVars, sidebarVars, mergeVars, plotVars>>

\* the run is over: its variables are gone, the session state stays
EndRun ==
    /\ pc \in {"done", "stopped"}
    /\ pc' = "start"
    /\ urlLog' = <<>>
    /\ fed_min_year' = FedMinYearDefault
    /\ fred' = <<>>
    /\ fed_events' = <<>>
    /\ fed_warning' = None
    /\ fed_raised' = "none"
    /\ show_manual_events' = TRUE
    /\ show_fed_events' = TRUE
    /\ show_manual_labels' = TRUE
    /\ show_fed_labels' = FALSE
    /\ series' = <<>>
    /\ plot_series' = <<>>
    /\ events_df' = <<>>
    /\ events' = <<>>
    /\ manual_events' = <<>>
    /\ plot_events' = <<>>
    /\ min_d' = NaT
    /\ max_d' = NaT
    /\ overlay' = <<>>
    /\ markers' = <<>>
    /\ vlines' = <<>>
    /\ annotations' = <<>>
    /\ info_shown' = None
    /\ picked' = 0
    /\ selected_event' = <<>>
    /\ window_days' = 0
    /\ d0' = NaT
    /\ window' = <<>>
    /\ window_shown' = "none"
    /\ window_raised' = "none"
    /\ UNCHANGED sessionVars

Next == Sidebar \/ LoadFed \/ ShowEditor \/ EditEvents \/ Merge \/ Plot \/ Inspect \/ EndRun

Spec == Init /\ [][Next]_vars

---------------------------------------------------------------------------
\* The loader alone, on every CSV of up to MaxRef rows

\* one call of load_fed_target_range_changes(min_year)
CallLoadFed ==
    /\ pc = "start"
    /\ \E resps \in UrlAnswers(SeqsUpTo(RawRows, MaxRef), SeqsUpTo(RawRows, 1)),
          y \in MinYears :
         \E res \in LoadFedTargetRangeChanges(resps, y) :
            /\ urlLog' = resps
            /\ fed_min_year' = y
            /\ fred' = res.fred
            /\ fed_events' = res.events
            /\ fed_warning' = res.warning
            /\ fed_raised' = res.raised
    /\ pc' = "returned"
    /\ UNCHANGED <<sessionVars, sidebarVars, mergeVars, plotVars, windowVars>>

NextDetect == CallLoadFed

SpecDetect == Init /\ [][NextDetect]_vars

---------------------------------------------------------------------------
\* The window alone (lines 382-404), as the operation window(series, center,
\* radius_days): on radii of either sign, where the page's slider gives
\* WindowMin and more only

\* radii the window is called with
Radii == (0 - WindowMin - 1)..(WindowMin + 1)

\* one evaluation of lines 382-404
CallWindow ==
    /\ pc = "start"
    /\ \E ser \in SeriesInputs \ {<<>>}, c \in Days, radius \in Radii :
          LET w == Window(ser, c, radius)
          IN  /\ series' = ser
              /\ plot_series' = ser
              /\ d0' = c
              /\ window_days' = radius
              /\ window' = w
              /\ window_shown' = WindowOutput(w)
              /\ window_raised' = "none"
    /\ pc' = "windowed"
    /\ UNCHANGED <<picked, selected_event, show_manual_events, show_fed_events,
                   show_manual_labels, show_fed_labels>>
    /\ UNCHANGED <<fedVars, sessionVars, mergeVars, plotVars>>

NextWindow == CallWindow

SpecWindow == Init /\ [][NextWindow]_vars

---------------------------------------------------------------------------
\* Properties of the loader

\* the loader returned from a usable response
Detected == pc = "returned" /\ FirstUsable(urlLog) # 0

\* the rows of the response the loader used, as parsed
ParsedRows == DropNa(Coerce(urlLog[FirstUsable(urlLog)].rows))

\* the parsed rows that are in range of the start year
KeptRows == SelectSeq(ParsedRows, LAMBDA r : Year(r.Date) >= fed_min_year)

Count(s, r) == Cardinality({i \in DOMAIN s : s[i] = r})
SameRows(s, t) == Len(s) = Len(t) /\ \A i \in DOMAIN s : Count(s, s[i]) = Count(t, s[i])

\* the maximal runs <<a, b>> of equal consecutive values of s
Runs(s) ==
    {ab \in (DOMAIN s) \X (DOMAIN s) :
        /\ ab[1] <= ab[2]
        /\ \A i \in ab[1]..ab[2] : s[i].Upper = s[ab[1]].Upper
        /\ ab[1] = 1 \/ s[ab[1] - 1].Upper # s[ab[1]].Upper
        /\ ab[2] = Len(s) \/ s[ab[2] + 1].Upper # s[ab[1]].Upper}

\* the first index of the k-th run of s
RunStart(s, k) ==
    (CHOOSE ab \in Runs(s) : Cardinality({cd \in Runs(s) : cd[1] < ab[1]}) = k - 1)[1]

\* first day ordinal of a year
YearStart(y) == (y - FedMinYearLo) * DaysPerYear

\* C1: the series the detector compares is the parsed, in-range rows in
\* ascending date order; it returns exactly one event per maximal run of equal
\* consecutive values, dated at the run's first timestamp, in ascending date
\* order, and the first observation in range always yields an event.
DetectOnePerRun ==
    Detected =>
        /\ SameRows(fred, KeptRows)
        /\ IsSortedByDate(fred)
        /\ Len(fed_events) = Cardinality(Runs(fred))
        /\ \A k \in DOMAIN fed_events : fed_events[k].Date = fred[RunStart(fred, k)].Date
        /\ IsSortedByDate(fed_events)
        /\ fred # <<>> => fed_events # <<>> /\ fed_events[1].Date = fred[1].Date

\* a series with a run of several rows followed by another run
TwoRunsSeen ==
    /\ Detected
    /\ Len(fred) = 3
    /\ fred[1].Upper = fred[2].Upper
    /\ fred[2].Upper # fred[3].Upper
    /\ Len(fed_events) = 2

\* C2: the event of the first run in range reads "set to <value>" with no
\* direction; the event of every later run carries the upward marker exactly
\* when its value is greater than the preceding observation's and the downward
\* marker exactly when it is smaller; no event carries a direction when the
\* value did not change.
LabelsStateDirection ==
    Detected =>
        \A k \in DOMAIN fed_events :
            LET a == RunStart(fred, k)
                label == fed_events[k].Event
            IN  /\ Len(fed_events) = Cardinality(Runs(fred))
                /\ label[2] = Fmt2(fred[a].Upper)
                /\ k = 1 => label[1] = "set to"
                /\ k > 1 =>
                    /\ label[1] \in {"up to", "down to"}
                    /\ label[1] = "up to" <=> fred[a].Upper > fred[a - 1].Upper
                    /\ label[1] = "down to" <=> fred[a].Upper < fred[a - 1].Upper
                    /\ fred[a].Upper # fred[a - 1].Upper

\* a series that is set, rises and falls
UpAndDownSeen ==
    /\ Detected
    /\ Len(fed_events) = 3
    /\ fed_events[1].Event[1] = "set to"
    /\ fed_events[2].Event[1] = "up to"
    /\ fed_events[3].Event[1] = "down to"

\* C8: no event is dated before the first day of the start year, and the
\* first point at or after it is reported as "set to", whatever an earlier,
\* filtered-out point held.
SinceFilterFirst ==
    Detected =>
        /\ \A k \in DOMAIN fed_events :
              /\ fed_events[k].Date >= YearStart(fed_min_year)
              /\ \E i \in DOMAIN KeptRows : KeptRows[i].Date = fed_events[k].Date
        /\ KeptRows # <<>> =>
              /\ fed_events # <<>>
              /\ fed_events[1].Event[1] = "set to"
              /\ fed_events[1].Date = Min({KeptRows[i].Date : i \in DOMAIN KeptRows})
              /\ \E i \in DOMAIN KeptRows :
                    /\ KeptRows[i].Date = fed_events[1].Date
                    /\ fed_events[1].Event[2] = Fmt2(KeptRows[i].Upper)

\* an earlier point with another value was filtered out
EarlierPointFilteredOut ==
    /\ Detected
    /\ fed_events # <<>>
    /\ \E i \in DOMAIN ParsedRows :
          /\ Year(ParsedRows[i].Date) < fed_min_year
          /\ Fmt2(ParsedRows[i].Upper) # fed_events[1].Event[2]

\* C9: when no row is left after the start-year filter the loader returns no
\* event, raises nothing and reports no warning.
EmptyAfterFilterIsEmpty ==
    (Detected /\ KeptRows = <<>>) =>
        /\ fed_events = <<>>
        /\ fed_warning = None
        /\ fed_raised = "none"

\* every parsed row of a non-empty response was filtered out
AllRowsFilteredOut ==
    /\ Detected
    /\ ParsedRows # <<>>
    /\ KeptRows = <<>>
    /\ fed_events = <<>>

\* C10 as stated: a reference series that is not sorted ascending makes the
\* loader fail with a validation error, and it returns no events.
UnsortedFailsFast ==
    (Detected /\ ~IsSortedByDate(ParsedRows)) =>
        /\ fed_raised = "ValidationError"
        /\ fed_events = <<>>

\* C10 amended: the loader re-sorts. For a reference series that is not sorted
\* ascending it raises nothing, reports no warning, and detects over the
\* in-range rows put in ascending date order.
UnsortedIsResorted ==
    (Detected /\ ~IsSortedByDate(ParsedRows)) =>
        /\ fed_raised = "none"
        /\ fed_warning = None
        /\ IsSortedByDate(fred)
        /\ SameRows(fred, KeptRows)
        /\ IsSortedByDate(fed_events)
        /\ Len(fed_events) = Cardinality(Runs(fred))

\* an unsorted series came back as events in date order
UnsortedSeen ==
    /\ Detected
    /\ ~IsSortedByDate(KeptRows)
    /\ Len(fed_events) >= 2

---------------------------------------------------------------------------
\* Properties of the merge, the markers and the window

\* the markers of this run are drawn
Plotted == pc \in {"inspect", "done"}

\* the window of this run was taken
Inspected == pc = "done" /\ selected_event # <<>>

InRange(d) == min_d <= d /\ d <= max_d

RECURSIVE InsertByDate(_, _)
\* r put into the date-sorted s behind every row dated like it or earlier
InsertByDate(s, r) ==
    IF s = <<>> THEN <<r>>
    ELSE IF Head(s).Date <= r.Date THEN <<Head(s)>> \o InsertByDate(Tail(s), r)
    ELSE <<r>> \o s

RECURSIVE StableByDate(_)
\* s in ascending date order, rows of equal date in the order they have in s
StableByDate(s) ==
    IF s = <<>> THEN <<>>
    ELSE InsertByDate(StableByDate(SubSeq(s, 1, Len(s) - 1)), s[Len(s)])

\* C3: the overlay holds exactly the manual and derived events dated within
\* [min, max] of the price series' dates, both ends included: no event outside
\* it is in the overlay or drawn, and every occurrence of an in-range event of
\* either source is there exactly once, with nothing merged away.
OverlayIsInRangeEvents ==
    Plotted =>
        /\ min_d = Min({plot_series[i].Date : i \in DOMAIN plot_series})
        /\ max_d = Max({plot_series[i].Date : i \in DOMAIN plot_series})
        /\ \A i \in DOMAIN overlay : InRange(overlay[i].Date)
        /\ \A i \in DOMAIN markers : InRange(markers[i].Date)
        /\ \A i \in DOMAIN events :
              InRange(events[i].Date) =>
                 Count(overlay, events[i]) = Count(events, events[i])
        /\ \A i \in DOMAIN fed_events :
              InRange(fed_events[i].Date) =>
                 Count(overlay, fed_events[i]) = Count(fed_events, fed_events[i])
        /\ Len(overlay) = Cardinality({i \in DOMAIN events : InRange(events[i].Date)})
                          + Cardinality({i \in DOMAIN fed_events : InRange(fed_events[i].Date)})

\* a manual and a derived event share the first day of the range, and another
\* event is out of range
SharedBoundaryDaySeen ==
    /\ Plotted
    /\ \E i, j \in DOMAIN overlay :
          /\ overlay[i].Date = min_d
          /\ overlay[j].Date = min_d
          /\ IsFed(overlay[i])
          /\ ~IsFed(overlay[j])
    /\ \E i \in DOMAIN plot_events : plot_events[i].Date > max_d

\* C4: events of equal date keep the order they have in manual_events followed
\* by fed_events; a manual event is listed before a derived event of its date.
TiesKeepInputOrder ==
    Plotted =>
        /\ \A i, j \in DOMAIN overlay :
              (i < j /\ overlay[i].Date = overlay[j].Date)
                 => ~(IsFed(overlay[i]) /\ ~IsFed(overlay[j]))
        /\ overlay = SelectSeq(StableByDate(manual_events \o fed_events),
                               LAMBDA r : InRange(r.Date))

\* C5: the overlay, and the markers drawn from it, are in ascending date order.
OverlaySorted ==
    Plotted =>
        /\ IsSortedByDate(plot_events)
        /\ IsSortedByDate(overlay)
        /\ IsSortedByDate(markers)

\* a derived event is dated before a manual event, both in the overlay
DerivedBeforeManualSeen ==
    /\ Plotted
    /\ \E i, j \in DOMAIN overlay :
          /\ IsFed(overlay[i])
          /\ ~IsFed(overlay[j])
          /\ overlay[i].Date < overlay[j].Date

\* the indexes of the series' points within radius days of center
Within(points, center, radius) ==
    {j \in DOMAIN points :
        center - radius <= points[j].Date /\ points[j].Date <= center + radius}

\* C6: the window around the picked event's date d0 holds exactly the points
\* of the price series dated d0 - window_days to d0 + window_days, both ends
\* included, in the series' order.
WindowIsClosedInterval ==
    Inspected =>
        LET W == Within(plot_series, d0, window_days)
        IN  /\ \E k \in DOMAIN manual_events :
                  manual_events[k].Event = selected_event /\ manual_events[k].Date = d0
            /\ Len(window) = Cardinality(W)
            /\ \A i \in DOMAIN window :
                  \E j \in W :
                     /\ Cardinality({l \in W : l < j}) = i - 1
                     /\ window[i] = plot_series[j]

\* a window that ends on a point of the series and leaves another point out
WindowEndsOnPointSeen ==
    /\ Inspected
    /\ window # <<>>
    /\ Len(window) < Len(plot_series)
    /\ \E i \in DOMAIN window : window[i].Date = d0 + window_days

\* C7: an empty window is answered by the informational message; the chart is
\* rendered of a non-empty window only.
EmptyWindowInforms ==
    /\ Inspected => (window = <<>> <=> window_shown = "info")
    /\ Inspected => (window # <<>> <=> window_shown = "chart")
    /\ window_shown = "chart" => window # <<>>

\* no point of the series is in the window of the picked event
EmptyWindowSeen ==
    /\ Inspected
    /\ plot_series # <<>>
    /\ Within(plot_series, d0, window_days) = {}
    /\ window = <<>>
    /\ window_shown = "info"

\* C11: after the merge, no two events of the overlay have the same date and
\* the same text, whatever table the user entered and whatever was derived.
NoTwoEventsSameDateAndText ==
    Plotted =>
        \A i, j \in DOMAIN overlay :
            i # j => ~(/\ overlay[i].Date = overlay[j].Date
                       /\ overlay[i].Event = overlay[j].Event)

\* the overlay rows whose toggle is on
ToggledOn(r) == IF IsFed(r) THEN show_fed_events ELSE show_manual_events

\* the markers a label is added to
Labelled ==
    SelectSeq(markers,
              LAMBDA r : IF IsFed(r) THEN show_fed_labels ELSE show_manual_labels)

\* C12 as stated: whatever the toggles, every in-range event is drawn as a
\* marker; no event is left out because of its category.
EveryInRangeEventDrawn ==
    Plotted =>
        /\ Len(markers) = Len(overlay)
        /\ \A i \in DOMAIN overlay : Count(markers, overlay[i]) = Count(overlay, overlay[i])

\* C12 amended: an in-range event is drawn exactly when the toggle of its kind
\* is on: a manual event (any category but the Fed's) under "Show manual event
\* markers", a Fed event under "Overlay Fed rate changes"; the events drawn
\* keep the overlay's order. Of a drawn event the category decides the look
\* only: the line's opacity (0.35 Fed, 0.60 manual) and, when the label toggle
\* of its kind is on, the label's height and opacity (1.06 and 0.70 Fed, 1.02
\* and 0.85 manual).
MarkersFollowToggles ==
    Plotted =>
        /\ \A i \in DOMAIN overlay :
              Count(markers, overlay[i]) =
                 IF ToggledOn(overlay[i]) THEN Count(overlay, overlay[i]) ELSE 0
        /\ Len(markers) = Cardinality({i \in DOMAIN overlay : ToggledOn(overlay[i])})
        /\ \A i, j \in DOMAIN markers :
              i < j => \E k, l \in DOMAIN overlay :
                          k < l /\ overlay[k] = markers[i] /\ overlay[l] = markers[j]
        /\ Len(vlines) = Len(markers)
        /\ \A i \in DOMAIN markers :
              /\ vlines[i].x = markers[i].Date
              /\ vlines[i].opacity = IF IsFed(markers[i]) THEN 35 ELSE 60
        /\ Len(annotations) = Len(Labelled)
        /\ \A i \in DOMAIN Labelled :
              /\ annotations[i].x = Labelled[i].Date
              /\ annotations[i].text = Labelled[i].Event
              /\ annotations[i].y = IF IsFed(Labelled[i]) THEN 106 ELSE 102
              /\ annotations[i].opacity = IF IsFed(Labelled[i]) THEN 70 ELSE 85

\* the manual markers are off: an in-range manual event is not drawn, while a
\* Fed event is drawn and labelled
ManualEventToggledOffSeen ==
    /\ Plotted
    /\ ~show_manual_events
    /\ \E i \in DOMAIN overlay : ~IsFed(overlay[i])
    /\ \E i \in DOMAIN markers : IsFed(markers[i])
    /\ \A i \in DOMAIN markers : IsFed(markers[i])
    /\ annotations # <<>>

\* rows a user can have entered, as the editor returns them or as the next
\* run reads them back (an empty date cell reads as NaT)
UserRows ==
    {[Date |-> d, Event |-> l, Category |-> ManualCategory] :
        d \in ManualDays \cup {BadCell, NaT}, l \in Labels}

DefaultRows == {default_events[i] : i \in DOMAIN default_events}

\* the run is past the call of the loader
FedLoaded == pc \in {"editor", "editing", "merge", "plot", "inspect", "done"}

\* C13: derived events are never persisted. In every state of every sequence
\* of renders the table in the session state holds default or user-entered
\* rows only, none of the Fed category; a run starts with no derived event
\* (line 215), has none while the overlay is off, and otherwise has those the
\* loader made from the response it used in this run; every Fed row of
\* plot_events is one of them.
DerivedNeverStored ==
    /\ \A i \in DOMAIN steel_events :
          /\ ~IsFed(steel_events[i])
          /\ steel_events[i] \in DefaultRows \cup UserRows
    /\ pc \in {"start", "fed"} => fed_events = <<>>
    /\ (FedLoaded /\ ~show_fed_events) => fed_events = <<>>
    /\ (FedLoaded /\ show_fed_events) =>
          \A i \in DOMAIN fed_events :
              /\ IsFed(fed_events[i])
              /\ FirstUsable(urlLog) # 0
              /\ \E j \in DOMAIN urlLog[FirstUsable(urlLog)].rows :
                    urlLog[FirstUsable(urlLog)].rows[j].Date = fed_events[i].Date
    /\ \A i \in DOMAIN plot_events :
          IsFed(plot_events[i]) =>
             Count(plot_events, plot_events[i]) = Count(fed_events, plot_events[i])

\* a render that drew a Fed event, with a table in the session that was stored
\* by an earlier render and read back (its empty date cell reads NaT)
FedDrawnOverStoredTableSeen ==
    /\ pc = "done"
    /\ \E i \in DOMAIN markers : IsFed(markers[i])
    /\ \E i \in DOMAIN steel_events : steel_events[i].Date = NaT
    /\ \E i \in DOMAIN steel_events : steel_events[i] \notin DefaultRows

\* a step that leaves the editor's output, the stored table and the price
\* series as they are
InputsUnchanged ==
    /\ events' = events
    /\ steel_events' = steel_events
    /\ series' = series
    /\ plot_series' = plot_series

\* C14: computing the overlay and the window leaves the inputs as they were.
\* Once the editor has returned, the table in the session state is the
\* editor's output, rows without a date or out of range included, and no step
\* after it in the run (date coercion, merge, sort, range filter, window)
\* changes the table, the editor's output or the price series.
InputsLeftAlone ==
    /\ [](pc \in {"merge", "plot", "inspect", "done"} => steel_events = events)
    /\ [][(pc \in {"merge", "plot", "inspect"}) => InputsUnchanged]_vars

\* a run came to its end with a dateless row and an out-of-range row in the
\* stored table, an overlay and a window
DatelessAndOutOfRangeKeptSeen ==
    /\ pc = "done"
    /\ steel_events = events
    /\ series = plot_series
    /\ \E i \in DOMAIN steel_events : steel_events[i].Date = BadCell
    /\ \E i \in DOMAIN steel_events :
          steel_events[i].Date >= 0 /\ ~InRange(steel_events[i].Date)
    /\ overlay # <<>>
    /\ window # <<>>

\* the rows of the response the loader used, as pd.read_csv returned them
GivenRows == urlLog[FirstUsable(urlLog)].rows

\* a reference series: every row parses, the timestamps are distinct and in
\* ascending order
IsReferenceSeries(rows) ==
    /\ \A i \in DOMAIN rows : IsParsed(Coerce(rows)[i])
    /\ \A i \in 1..(Len(rows) - 1) : rows[i].Date < rows[i + 1].Date

\* no two consecutive values are equal
NoEqualNeighbours(rows) ==
    \A i \in 1..(Len(rows) - 1) : rows[i].Upper # rows[i + 1].Upper

\* C15 as stated: of an ascending reference series in which no two
\* consecutive values are equal the detector returns len(series) events, one
\* per point of the series it was given.
OneEventPerGivenPoint ==
    (Detected /\ IsReferenceSeries(GivenRows) /\ NoEqualNeighbours(GivenRows)) =>
        /\ Len(fed_events) = Len(GivenRows)
        /\ \A i \in DOMAIN fed_events : fed_events[i].Date = GivenRows[i].Date

\* C15 amended: of an ascending reference series in which no two consecutive
\* values are equal the detector returns one event per point dated in the
\* start year or later, in order, and none for an earlier point; that is
\* len(series) events only when no point is dated before the start year.
OneEventPerKeptPoint ==
    (Detected /\ IsReferenceSeries(GivenRows) /\ NoEqualNeighbours(GivenRows)) =>
        LET kept == {i \in DOMAIN GivenRows : Year(GivenRows[i].Date) >= fed_min_year}
        IN  /\ Len(fed_events) = Cardinality(kept)
            /\ \A i \in DOMAIN fed_events :
                  fed_events[i].Date = GivenRows[i + Len(GivenRows) - Cardinality(kept)].Date
            /\ (kept = DOMAIN GivenRows) => Len(fed_events) = Len(GivenRows)

\* a series of three points of which some, not all, are dated before the start
\* year: fewer than three events
EarlierPointGetsNoEventSeen ==
    /\ Detected
    /\ IsReferenceSeries(GivenRows)
    /\ NoEqualNeighbours(GivenRows)
    /\ Len(GivenRows) = 3
    /\ Year(GivenRows[1].Date) < fed_min_year
    /\ fed_events # <<>>
    /\ Len(fed_events) < Len(GivenRows)

\* C16: merging and range filtering is idempotent. The overlay of a render,
\* given to lines 288-290 and the range test of line 332 again as the events
\* to merge, with the same range, comes back as the same rows in the same
\* order.
MergeFilterIdempotent ==
    Plotted =>
        \A again \in PlotEvents(overlay, <<>>) :
            InRangeRows(again, min_d, max_d) = overlay

\* the window was evaluated with a negative radius
NegativeRadius == pc = "windowed" /\ window_days < 0

UsableUrls == {i \in DOMAIN urlLog : urlLog[i].kind = "ok"}

\* C18: the loader raises nothing. When every url fails, by an exception or
\* by missing columns, it returns no event and a non-empty warning; the
\* overlay then holds the in-range manual events only, and the warning is
\* shown with st.info under the chart. When a url is usable, the first usable
\* one in the order of the urls is the one the events are made of, and there
\* is no warning and none is shown.
AllSourcesFailedWarns ==
    (Plotted /\ show_fed_events) =>
        /\ fed_raised = "none"
        /\ UsableUrls = {} =>
              /\ fed_events = <<>>
              /\ fed_warning \notin {None, ""}
              /\ info_shown = fed_warning
              /\ \A i \in DOMAIN overlay : ~IsFed(overlay[i])
              /\ \A i \in DOMAIN events :
                    InRange(events[i].Date) =>
                       Count(overlay, events[i]) = Count(events, events[i])
              /\ Len(overlay) =
                    Cardinality({i \in DOMAIN events : InRange(events[i].Date)})
        /\ UsableUrls # {} =>
              LET used == urlLog[Min(UsableUrls)].rows
              IN  /\ fed_warning = None
                  /\ info_shown = None
                  /\ Len(fred) <= Len(used)
                  /\ \A i \in DOMAIN fred : \E j \in DOMAIN used : Coerce(used)[j] = fred[i]
                  /\ \A i \in DOMAIN fed_events :
                        \E j \in DOMAIN used :
                           /\ used[j].Date = fed_events[i].Date
                           /\ Fmt2(used[j].Upper) = fed_events[i].Event[2]

\* both urls failed: a manual event is in the overlay and the warning is shown
BothUrlsFailedSeen ==
    /\ Plotted
    /\ show_fed_events
    /\ Len(urlLog) = 2
    /\ UsableUrls = {}
    /\ overlay # <<>>
    /\ \E i \in DOMAIN events : events[i].Date >= 0 /\ ~InRange(events[i].Date)
    /\ info_shown = FedUnavailable

\* C19: the window of the inspector is centred on the date of the manual
\* event the user picked in the selectbox, also when two events of different
\* dates have the same text.
WindowCentredOnPickedEvent ==
    Inspected =>
        /\ picked \in DOMAIN manual_events
        /\ selected_event = manual_events[picked].Event
        /\ d0 = manual_events[picked].Date

\* the row has no date: the cell is empty or does not parse
Dateless(r) == r.Date \in {BadCell, NaT}

\* C20: a manual event whose date is missing or unparseable reaches neither
\* manual_events nor plot_events, so it is not in the overlay, is not drawn
\* and is not offered in the inspector; the range test and the window
\* arithmetic work on valid dates only. The row stays in the table that is
\* stored in the session state.
DatelessRowsKeptNotUsed ==
    /\ pc \in {"plot", "inspect", "done"} =>
          /\ \A i \in DOMAIN manual_events : manual_events[i].Date >= 0
          /\ \A i \in DOMAIN plot_events : plot_events[i].Date >= 0
          /\ Len(manual_events) = Cardinality({i \in DOMAIN events : ~Dateless(events[i])})
          /\ Len(steel_events) = Len(events)
          /\ \A i \in DOMAIN events : Dateless(events[i]) => steel_events[i] = events[i]
    /\ Plotted =>
          /\ min_d >= 0
          /\ max_d >= 0
          /\ \A i \in DOMAIN overlay : overlay[i].Date >= 0
          /\ \A i \in DOMAIN markers : markers[i].Date >= 0
    /\ Inspected =>
          /\ picked \in DOMAIN manual_events
          /\ manual_events[picked].Date >= 0
          /\ d0 >= 0

\* a dateless row stored by an earlier run is read back, kept again, and the
\* run draws and inspects the dated row beside it
DatelessRowBesideDatedRowSeen ==
    /\ Inspected
    /\ \E i \in DOMAIN steel_events : steel_events[i].Date = NaT
    /\ \E i \in DOMAIN steel_events : ~Dateless(steel_events[i])
    /\ Len(manual_events) < Len(events)
    /\ overlay # <<>>

\* a step on the session state as the claim has it: the key is never removed;
\* lines 257-258 install the defaults in a session without the key and leave
\* a stored table as it is; the editor's output replaces it at line 281; no
\* other step of a run, and no step between two runs, touches it
SessionStep ==
    /\ steel_events_set => steel_events_set'
    /\ (pc = "editor" /\ steel_events_set) => steel_events' = steel_events
    /\ (pc = "editor" /\ ~steel_events_set) => steel_events' = default_events
    /\ pc = "editing" => steel_events' = events'
    /\ pc \notin {"editor", "editing"} => steel_events' = steel_events

\* C21: across the renders of a session the defaults are installed only when
\* the session holds no manual table. The table the editor shows is the
\* stored table (its dates coerced), which on every later render is the one
\* the previous render stored; at the end of a render the stored table is
\* that render's editor output. An edit is never reset to the defaults.
EditsSurviveRenders ==
    /\ [](pc = "editing" => (steel_events_set /\ events_df = CoerceDates(steel_events)))
    /\ [](pc \in {"merge", "plot", "inspect", "done"} =>
             (steel_events_set /\ steel_events = events))
    /\ [][SessionStep]_vars

\* a later render: the editor shows a stored table that is not the defaults
EditedTableShownAgainSeen ==
    /\ pc = "editing"
    /\ steel_events # default_events
    /\ steel_events # <<>>
    /\ events_df = CoerceDates(steel_events)
    /\ events_df # CoerceDates(default_events)

====
